---- MODULE Spec2Model ----
(***************************************************************************)
(* A model of two parts of the Nachos kernel:                              *)
(*   code/filesys/filehdr.cc   the file header (multi-level index)         *)
(*   code/threads/scheduler.cc the three-level feedback scheduler          *)
(* The two parts share no state; each has its own specification.           *)
(***************************************************************************)
EXTENDS Integers, Sequences, FiniteSets, TLC

(***************************************************************************)
(* Geometry of the file header.  The kernel's values (filehdr.h, disk.h)   *)
(* are scaled down; every formula below is stated in terms of the names.   *)
(***************************************************************************)
SectorSize == 2
NumDirect == 2
SingleSize == NumDirect * SectorSize
DoubleSize == NumDirect * SingleSize
TripleSize == NumDirect * DoubleSize

\* Number of sectors of the disk, and the largest file size requested.
NumSectors == 34
MaxSize == 33

Sectors == 0 .. (NumSectors - 1)
NoSector == 0 - 1

VARIABLES
    freeMap,    \* the bitmap: the set of sectors marked used
    disk,       \* sector -> the file header written there, or NoHdr
    hdr,        \* the in-memory file header of the file being created/removed
    fpc,        \* "fresh", "allocated", "failed", "freed" or "halted"
    last        \* what the last Allocate / Deallocate did (for the properties)

fhVars == <<freeMap, disk, hdr, fpc, last>>

VARIABLES
    status,         \* thread -> JUST_CREATED, RUNNING, READY, BLOCKED, DELETED
    priority,       \* thread -> 0 .. 149
    burstTime,      \* thread -> the estimate of its CPU burst
    burstStart,     \* thread -> the tick at which it was last dispatched
    waitTime,       \* thread -> the tick at which it last entered a queue
    L1Q, L2Q, L3Q,  \* the ready lists (sequences of threads)
    currentThread,  \* kernel->currentThread
    toBeDestroyed,  \* the finishing thread to delete, or NoThread
    totalTicks,     \* kernel->stats->totalTicks
    pc,             \* where the running code is between scheduler calls
    nextThread,     \* the caller's result of FindNextToRun
    finishing,      \* the caller is Thread::Sleep(TRUE)
    intLevel,       \* kernel->interrupt->getLevel() at a scheduler call
    nCalls,          \* Yield and Sleep calls made so far
    sl              \* the last scheduler call and what it did

schedVars ==
    <<status, priority, burstTime, burstStart, waitTime, L1Q, L2Q, L3Q,
      currentThread, toBeDestroyed, totalTicks, pc, nextThread, finishing,
      intLevel, nCalls, sl>>

vars == <<fhVars, schedVars>>

NoHdr == [numBytes |-> 0 - 2, numSectors |-> 0 - 2, dataSectors |-> <<>>]

\* FileHeader::FileHeader: every field is -1.
FileHeader ==
    [numBytes |-> 0 - 1, numSectors |-> 0 - 1,
     dataSectors |-> [i \in 1 .. NumDirect |-> NoSector]]

divRoundUp(n, s) == (n + s - 1) \div s
divRoundDown(n, s) == n \div s

\* The bitmap (a collaborator of the file header).
NumClear(map) == Cardinality(Sectors \ map)
Test(map, s) == s \in map
FindAndSet(map) ==
    IF Sectors \ map = {} THEN NoSector
    ELSE CHOOSE s \in Sectors \ map : \A t \in Sectors \ map : s <= t
Mark(map, s) == IF s = NoSector THEN map ELSE map \cup {s}

\* The disk accepts a request only for a sector it has.
ValidSector(s) == s \in Sectors

(***************************************************************************)
(* FileHeader::Allocate.  The running state of one call is a record        *)
(*   map, dsk   the bitmap and the disk                                    *)
(*   fault      an I/O request named a sector the disk does not have, and  *)
(*              the kernel halted there                                    *)
(*   failed     some FindAndSet found no sector, or some child's Allocate  *)
(*              returned FALSE (the caller never looks at either)          *)
(*   index      the sectors taken for child headers                        *)
(*   maxIdx     the largest index of dataSectors written by any node       *)
(***************************************************************************)
\* The check of line 74 left out.
NotEnoughSpace_Never(map, n) == FALSE
NotEnoughSpace(map, n) == NumClear(map) < n

ChildSize(fileSize, chunk) == IF fileSize > chunk THEN chunk ELSE fileSize

\* A loop that forgets the last, partly filled child.
LoopContinues_WholeChunk(i, fileSize) == fileSize >= SingleSize
LoopContinues(i, fileSize) == fileSize > 0

\* dataSectors[i] = v; an index past the array does not land in the header.
SetEntry(h, i, v) ==
    IF i < NumDirect
    THEN [h EXCEPT !.dataSectors = [@ EXCEPT ![i + 1] = v]]
    ELSE h

Max(a, b) == IF a > b THEN a ELSE b

\* hdr->WriteBack(sector)
WriteBack(st, h, sector) ==
    IF ValidSector(sector)
    THEN [st EXCEPT !.dsk = [@ EXCEPT ![sector] = h]]
    ELSE [st EXCEPT !.fault = TRUE]

Chunk(fileSize) ==
    IF fileSize > TripleSize THEN TripleSize
    ELSE IF fileSize > DoubleSize THEN DoubleSize
    ELSE SingleSize

RECURSIVE Allocate(_, _)
RECURSIVE AllocChildren(_, _, _, _, _)
RECURSIVE AllocDirect(_, _, _)

\* The loop of lines 114-116: for (i = 0; i < numSectors; ++i).
AllocDirect(st, h, i) ==
    IF i >= h.numSectors THEN [st |-> st, hdr |-> h]
    ELSE LET s == FindAndSet(st.map)
             st1 == [st EXCEPT !.map = Mark(@, s),
                               !.failed = @ \/ s = NoSector,
                               !.maxIdx = Max(@, i)]
         IN  AllocDirect(st1, SetEntry(h, i, s), i + 1)

\* The loops of lines 78-88, 90-100, 102-112: for (i = 0; fileSize > 0; ++i).
AllocChildren(st, h, chunk, i, fileSize) ==
    IF st.fault \/ ~LoopContinues(i, fileSize) THEN [st |-> st, hdr |-> h]
    ELSE LET s == FindAndSet(st.map)
             st1 == [st EXCEPT !.map = Mark(@, s),
                               !.failed = @ \/ s = NoSector,
                               !.index = IF s = NoSector THEN @ ELSE @ \cup {s},
                               !.maxIdx = Max(@, i)]
             h1 == SetEntry(h, i, s)
             c == Allocate(st1, ChildSize(fileSize, chunk))
             st2 == [c.st EXCEPT !.failed = @ \/ ~c.ret]
             st3 == IF st2.fault THEN st2 ELSE WriteBack(st2, c.hdr, s)
         IN  AllocChildren(st3, h1, chunk, i + 1, fileSize - chunk)

Allocate(st, fileSize) ==
    LET h == [FileHeader EXCEPT !.numBytes = fileSize,
                               !.numSectors = divRoundUp(fileSize, SectorSize)]
    IN  IF NotEnoughSpace(st.map, h.numSectors)
        THEN [ret |-> FALSE, st |-> st, hdr |-> h]
        ELSE LET r == IF fileSize > SingleSize
                      THEN AllocChildren(st, h, Chunk(fileSize), 0, fileSize)
                      ELSE AllocDirect(st, h, 0)
             IN  [ret |-> TRUE, st |-> r.st, hdr |-> r.hdr]

StartState(map, dsk) ==
    [map |-> map, dsk |-> dsk, fault |-> FALSE, failed |-> FALSE,
     index |-> {}, maxIdx |-> 0 - 1]

(***************************************************************************)
(* FileHeader::Deallocate.  "g" is the word found by a read of             *)
(* dataSectors past its NumDirect entries (any sector number, or none).    *)
(* A FetchFrom of a sector that is no sector of the disk, or that holds no *)
(* file header, and a failed ASSERT, halt the kernel (fault).              *)
(***************************************************************************)
Entry(h, i, g) == IF i < NumDirect THEN h.dataSectors[i + 1] ELSE g

Visits(h) == divRoundUp(h.numSectors, NumDirect)

IsInterior(h) == h.numBytes > SingleSize

RECURSIVE Deallocate(_, _, _)
RECURSIVE DeallocChildren(_, _, _, _, _)
RECURSIVE DeallocDirect(_, _, _, _)

\* Lines 143-146: ASSERT(freeMap->Test(s)); freeMap->Clear(s).
DeallocDirect(st, h, i, g) ==
    IF st.fault \/ i >= h.numSectors THEN st
    ELSE LET s == Entry(h, i, g)
         IN  IF ~Test(st.map, s) THEN [st EXCEPT !.fault = TRUE]
             ELSE DeallocDirect([st EXCEPT !.map = @ \ {s}], h, i + 1, g)

\* Lines 136-141: fetch each child header and deallocate it.
DeallocChildren(st, h, sectors, i, g) ==
    IF st.fault \/ i >= sectors THEN st
    ELSE LET s == Entry(h, i, g)
         IN  IF ~ValidSector(s) \/ st.dsk[s] = NoHdr
             THEN [st EXCEPT !.fault = TRUE]
             ELSE DeallocChildren(Deallocate(st, st.dsk[s], g), h, sectors, i + 1, g)

Deallocate(st, h, g) ==
    IF IsInterior(h)
    THEN DeallocChildren(st, h, Visits(h), 0, g)
    ELSE DeallocDirect(st, h, 0, g)

(***************************************************************************)
(* FileHeader::ByteToSector.  The result is a sector, NoSector for an      *)
(* entry never set, or Halted when the descent fetches a header from a     *)
(* sector that is none or reads dataSectors past its end.                  *)
(***************************************************************************)
Halted == 0 - 2

RECURSIVE ByteToSector(_, _, _)
ByteToSector(h, dsk, offset) ==
    IF h.numBytes > SingleSize
    THEN LET chunk == Chunk(h.numBytes)
             sector == divRoundDown(offset, chunk)
             s == Entry(h, sector, Halted)
         IN  IF ~ValidSector(s) \/ dsk[s] = NoHdr THEN Halted
             ELSE ByteToSector(dsk[s], dsk, offset - sector * chunk)
    ELSE Entry(h, offset \div SectorSize, Halted)

FileLength(h) == h.numBytes

(***************************************************************************)
(* The file system's use of a header: construct, Allocate, and, when that  *)
(* succeeded, Deallocate.  The pool starts with the sectors of other files *)
(* marked: a run of them, or every second sector of a run.                 *)
(***************************************************************************)
NoLast ==
    [op |-> "none", size |-> 0, ret |-> FALSE, preMap |-> {}, postMap |-> {},
     failed |-> FALSE, index |-> {}, maxIdx |-> 0 - 1]

InitMaps ==
    {0 .. (k - 1) : k \in 0 .. NumSectors}
        \cup {{s \in 0 .. (k - 1) : s % 2 = 0} : k \in 0 .. NumSectors}
\* The words a read past dataSectors may find: the number of a sector that
\* holds a file header, or anything else (NoSector stands for every word that
\* is not such a number: FetchFrom halts on all of them alike).  None is read
\* when the loop of Deallocate stays inside the array.
Garbage(h, dsk) ==
    IF IsInterior(h) /\ Visits(h) > NumDirect
    THEN {NoSector} \cup {s \in Sectors : dsk[s] # NoHdr}
    ELSE {NoSector}

InitFH ==
    /\ freeMap \in InitMaps
    /\ disk = [s \in Sectors |-> NoHdr]
    /\ hdr = FileHeader
    /\ fpc = "fresh"
    /\ last = NoLast

DoAllocate(fileSize) ==
    /\ fpc = "fresh"
    /\ LET r == Allocate(StartState(freeMap, disk), fileSize)
       IN  /\ freeMap' = r.st.map
           /\ disk' = r.st.dsk
           /\ hdr' = r.hdr
           /\ fpc' = IF r.st.fault THEN "halted"
                     ELSE IF r.ret THEN "allocated" ELSE "failed"
           /\ last' = [op |-> "Allocate", size |-> fileSize, ret |-> r.ret,
                       preMap |-> freeMap, postMap |-> r.st.map,
                       failed |-> r.st.failed, index |-> r.st.index,
                       maxIdx |-> r.st.maxIdx]
    /\ UNCHANGED schedVars

DoDeallocate(g) ==
    /\ fpc = "allocated"
    /\ LET st == Deallocate(StartState(freeMap, disk), hdr, g)
       IN  /\ freeMap' = st.map
           /\ fpc' = IF st.fault THEN "halted" ELSE "freed"
           /\ last' = [last EXCEPT !.op = "Deallocate"]
    /\ UNCHANGED <<disk, hdr, schedVars>>

NextFH ==
    \/ \E fileSize \in 0 .. MaxSize : DoAllocate(fileSize)
    \/ \E g \in Garbage(hdr, disk) : DoDeallocate(g)


(***************************************************************************)
(* Properties of the file header.                                          *)
(***************************************************************************)
Taken == last.postMap \ last.preMap
EmptyDisk == [s \in Sectors |-> NoHdr]

\* C1: Allocate(pool, S) followed immediately by Deallocate(pool) on the same
\* header leaves the number of free sectors as it was before the Allocate,
\* for every size S (also above SingleSize, where child headers are made).
C1_RoundTripKeepsFreeCount ==
    fpc = "freed" => NumClear(freeMap) = NumClear(last.preMap)

\* C2: when a FindAndSet finds no sector, or a child's Allocate returns FALSE,
\* during Allocate(pool, S), the top-level Allocate returns FALSE and leaves no
\* sector marked that no header reaches (the header is dropped, so none stays
\* marked); in particular it does not return TRUE.
C2_FailurePropagates ==
    (last.op = "Allocate" /\ last.failed) =>
        (fpc = "failed" /\ freeMap = last.preMap)

\* C3: when S needs more sectors than are free, Allocate(pool, S) returns
\* FALSE and leaves the pool (and the disk) as they were: no sector is taken.
C3_NoOverAllocation ==
    (last.op = "Allocate"
        /\ divRoundUp(last.size, SectorSize) > NumClear(last.preMap)) =>
        (fpc = "failed" /\ ~last.ret /\ freeMap = last.preMap
            /\ last.postMap = last.preMap /\ disk = EmptyDisk)

\* C3 witness: an Allocate that was refused on a pool that had free sectors,
\* only not enough of them.
C3_Witness ==
    /\ fpc = "failed"
    /\ last.op = "Allocate"
    /\ NumClear(last.preMap) > 0
    /\ divRoundUp(last.size, SectorSize) > NumClear(last.preMap)

\* C4: after Allocate(pool, S) returned TRUE, ByteToSector gives for every
\* offset below S a sector of the disk that is marked used; two offsets get the
\* same sector exactly when they are in the same group of SectorSize bytes; and
\* the sectors given are numSectors many, every one of them a sector that this
\* Allocate took from the pool.
C4_Coverage ==
    fpc = "allocated" =>
        LET B == [o \in 0 .. (last.size - 1) |-> ByteToSector(hdr, disk, o)]
            Range == {B[o] : o \in DOMAIN B}
        IN  /\ \A o \in DOMAIN B : B[o] \in Sectors /\ Test(freeMap, B[o])
            /\ \A o1, o2 \in DOMAIN B :
                   (B[o1] = B[o2]) <=> (o1 \div SectorSize = o2 \div SectorSize)
            /\ Cardinality(Range) = hdr.numSectors
            /\ Range \subseteq Taken

\* The pool has room for the NumDirect + 1 data sectors of a file of
\* SingleSize + 1 bytes and for its child headers.
C5_Case ==
    /\ last.op = "Allocate"
    /\ last.size = SingleSize + 1
    /\ NumClear(last.preMap) >= NumDirect + 3

\* C5 as claimed: Allocate(pool, SingleSize + 1) with enough free sectors makes
\* exactly one child header, and takes one sector for it plus the sectors of
\* that child's own allocation (a child of SingleSize bytes: NumDirect).
C5_OneChildHeader ==
    C5_Case =>
        /\ Cardinality(last.index) = 1
        /\ Cardinality(Taken) = 1 + NumDirect

\* C5 as amended: Allocate(pool, SingleSize + 1) with enough free sectors
\* returns TRUE having made exactly two child headers, the first for SingleSize
\* bytes and the second for the one byte left, and takes two sectors for them
\* plus the NumDirect + 1 data sectors of the two children.
C5_TwoChildHeaders ==
    C5_Case =>
        /\ fpc = "allocated"
        /\ last.ret
        /\ Cardinality(last.index) = 2
        /\ last.index = {hdr.dataSectors[1], hdr.dataSectors[2]}
        /\ disk[hdr.dataSectors[1]].numBytes = SingleSize
        /\ disk[hdr.dataSectors[2]].numBytes = 1
        /\ Cardinality(Taken) = 2 + (NumDirect + 1)

\* C5 witness: such an Allocate has returned.
C5_Witness ==
    C5_Case /\ fpc = "allocated" /\ Cardinality(Taken) > NumDirect + 1

\* The nodes of the file: the header allocated and the child headers written
\* to the disk (the disk held none before).
Nodes == {hdr} \cup {disk[s] : s \in {x \in Sectors : disk[x] # NoHdr}}

\* The entries of dataSectors that Allocate set in an interior node.
ChildrenWritten(h) ==
    Cardinality({i \in 1 .. NumDirect : h.dataSectors[i] # NoSector})

\* An Allocate that returned TRUE with every FindAndSet and every child's
\* Allocate having succeeded.
AllocatedWell == fpc = "allocated" /\ last.ret /\ ~last.failed

\* C18: in every interior node of a successfully allocated file, in each band,
\* the number of children Deallocate visits, ceil(numSectors / NumDirect), is
\* the number of child headers Allocate wrote into dataSectors of that node,
\* so that Deallocate fetches the entries Allocate filled and none beyond.
C18_VisitsMatchChildren ==
    AllocatedWell =>
        \A h \in Nodes : IsInterior(h) => Visits(h) = ChildrenWritten(h)

\* C21: when Allocate returns TRUE, every index at which it wrote dataSectors,
\* in a leaf or in an interior node at any level (the top node of a file
\* above TripleSize included), is below NumDirect: no node holds more than
\* NumDirect entries.
C21_IndexBelowNumDirect ==
    (last.op = "Allocate" /\ last.ret) => last.maxIdx < NumDirect

(***************************************************************************)
(* The scheduler.                                                          *)
(***************************************************************************)
\* Thread 0 is the kernel's first thread (the one ReadyToRun calls idle).
NumThreads == 3
Threads == 0 .. (NumThreads - 1)
NoThread == 0 - 1

\* Priority bands and aging (scheduler.cc).
L3Bound == 50
L2Bound == 100
MaxPriority == 149
AgingStep == 10
AgingThreshold == 1500

\* Priorities of the threads, and how far the clock is advanced.
Prios == {45, 95, 145}
MaxSmallTicks == 1
MaxBigTicks == 1
\* How many times the threads call Yield or Sleep.
MaxCalls == 3

\* The kernel state the scheduler reads and writes, as one record.
K ==
    [status |-> status, priority |-> priority, burstTime |-> burstTime,
     burstStart |-> burstStart, waitTime |-> waitTime,
     L1Q |-> L1Q, L2Q |-> L2Q, L3Q |-> L3Q,
     currentThread |-> currentThread, toBeDestroyed |-> toBeDestroyed,
     totalTicks |-> totalTicks,
     preempt |-> FALSE,     \* kernel->interrupt->Preempt() was called
     halted |-> FALSE,      \* an ASSERT failed
     switched |-> FALSE]    \* SWITCH was reached

SetK(k) ==
    /\ status' = k.status
    /\ priority' = k.priority
    /\ burstTime' = k.burstTime
    /\ burstStart' = k.burstStart
    /\ waitTime' = k.waitTime
    /\ L1Q' = k.L1Q
    /\ L2Q' = k.L2Q
    /\ L3Q' = k.L3Q
    /\ currentThread' = k.currentThread
    /\ toBeDestroyed' = k.toBeDestroyed
    /\ totalTicks' = k.totalTicks

\* (int) of a double that is half of n.
TruncHalf(n) == IF n >= 0 THEN n \div 2 ELSE 0 - ((0 - n) \div 2)

\* List and SortedList (lib/list.h).  SortedList::Insert puts the item before
\* the first element that compares greater, so after its equals.
InsertBefore(q, t, Greater(_)) ==
    LET after == {i \in 1 .. Len(q) : Greater(q[i])}
        pos == IF after = {} THEN Len(q) + 1
               ELSE CHOOSE i \in after : \A j \in after : i <= j
    IN  SubSeq(q, 1, pos - 1) \o <<t>> \o SubSeq(q, pos, Len(q))

Append3(q, t) == Append(q, t)
RemoveItem(q, t) == SelectSeq(q, LAMBDA x : x # t)
InList(q, t) == \E i \in 1 .. Len(q) : q[i] = t

\* Thread::cmpBurstTime: shorter burst first.
InsertL1(k, t) ==
    InsertBefore(k.L1Q, t, LAMBDA x : k.burstTime[x] > k.burstTime[t])
\* Thread::cmpPriority: higher priority first.
InsertL2(k, t) ==
    InsertBefore(k.L2Q, t, LAMBDA x : k.priority[x] < k.priority[t])

(***************************************************************************)
(* Scheduler::ReadyToRun(thread), called with interrupts off (intOff) or,  *)
(* against its precondition, on.                                           *)
(***************************************************************************)
\* The band of priority p: 3, 2 or 1 (lines 71, 75, 83).
Band_L2From49(p) == IF p < L3Bound - 1 THEN 3 ELSE IF p < L2Bound THEN 2 ELSE 1
Band(p) == IF p < L3Bound THEN 3 ELSE IF p < L2Bound THEN 2 ELSE 1

\* Lines 87-88: the running thread's burst, re-estimated now.
RunningEstimate_NoElapsed(k) == TruncHalf(k.burstTime[k.currentThread])
RunningEstimate(k) ==
    TruncHalf(k.burstTime[k.currentThread]
                + (k.totalTicks - k.burstStart[k.currentThread]))

\* Lines 80-81.
PreemptL2_IdleToo(k, t) == k.priority[t] > k.priority[k.currentThread]
PreemptL2(k, t) ==
    /\ k.priority[t] > k.priority[k.currentThread]
    /\ k.currentThread # 0

\* Lines 92-99.
PreemptL1_ByBurstOnly(k, t) ==
    /\ t # k.currentThread
    /\ k.currentThread # 0
    /\ k.burstTime[t] < RunningEstimate(k)
PreemptL1(k, t) ==
    /\ t # k.currentThread
    /\ k.currentThread # 0
    /\ IF k.priority[k.currentThread] >= L2Bound
       THEN k.burstTime[t] < RunningEstimate(k)
       ELSE TRUE

\* Line 66.
SetReady_Not(k, t) == k
SetReady(k, t) == [k EXCEPT !.status[t] = "READY"]

ReadyToRun(k0, thread, intOff) ==
    IF ~intOff THEN [k0 EXCEPT !.halted = TRUE]
    ELSE LET k == [SetReady(k0, thread) EXCEPT !.waitTime[thread] = k0.totalTicks]
             b == Band(k.priority[thread])
         IN  IF b = 3 THEN [k EXCEPT !.L3Q = Append3(@, thread)]
             ELSE IF b = 2
             THEN [k EXCEPT !.L2Q = InsertL2(k, thread),
                            !.preempt = @ \/ PreemptL2(k, thread)]
             ELSE [k EXCEPT !.L1Q = InsertL1(k, thread),
                            !.preempt = @ \/ PreemptL1(k, thread)]

(***************************************************************************)
(* Scheduler::FindNextToRun.  The result is [k, ret, level].               *)
(***************************************************************************)
\* Lines 117-122: the list the next thread is taken from, 0 for none.
FindLevel_L2First(k) ==
    IF k.L2Q # <<>> THEN 2 ELSE IF k.L1Q # <<>> THEN 1
    ELSE IF k.L3Q # <<>> THEN 3 ELSE 0
FindLevel(k) ==
    IF k.L1Q # <<>> THEN 1 ELSE IF k.L2Q # <<>> THEN 2
    ELSE IF k.L3Q # <<>> THEN 3 ELSE 0

FindNextToRun(k, intOff) ==
    IF ~intOff
    THEN [k |-> [k EXCEPT !.halted = TRUE], ret |-> NoThread, level |-> 0]
    ELSE LET level == FindLevel(k)
         IN  IF level = 1
             THEN [k |-> [k EXCEPT !.L1Q = Tail(@)], ret |-> Head(k.L1Q), level |-> 1]
             ELSE IF level = 2
             THEN [k |-> [k EXCEPT !.L2Q = Tail(@)], ret |-> Head(k.L2Q), level |-> 2]
             ELSE IF level = 3
             THEN [k |-> [k EXCEPT !.L3Q = Tail(@)], ret |-> Head(k.L3Q), level |-> 3]
             ELSE [k |-> k, ret |-> NoThread, level |-> 0]

(***************************************************************************)
(* Scheduler::Run(nextThread, finishing) up to SWITCH, and the code after  *)
(* SWITCH, which the thread switched to runs when it resumes.              *)
(***************************************************************************)
\* Lines 172-174: the outgoing thread's new burst estimate.
NewBurst_FromZero(k, old) == TruncHalf(k.totalTicks - k.burstStart[old])
NewBurst(k, old) ==
    TruncHalf(k.burstTime[old] + (k.totalTicks - k.burstStart[old]))

\* Line 152.
SameThread_Never(old, next) == FALSE
SameThread(old, next) == old = next

\* Lines 155-156: a thread finishes while another still waits to be destroyed.
SlotTaken_Never(k, fin) == FALSE
SlotTaken(k, fin) == fin /\ k.toBeDestroyed # NoThread

Run(k, next, fin, intOff) ==
    LET old == k.currentThread
    IN  IF ~intOff THEN [k EXCEPT !.halted = TRUE]
        ELSE IF SameThread(old, next) THEN k
        ELSE IF SlotTaken(k, fin) THEN [k EXCEPT !.halted = TRUE]
        ELSE [k EXCEPT !.toBeDestroyed = IF fin THEN old ELSE @,
                       !.currentThread = next,
                       !.status[next] = "RUNNING",
                       !.burstStart[next] = k.totalTicks,
                       !.burstTime[old] = NewBurst(k, old),
                       !.switched = TRUE]

\* Scheduler::CheckToBeDestroyed
CheckToBeDestroyed(k) ==
    IF k.toBeDestroyed # NoThread
    THEN [k EXCEPT !.status[k.toBeDestroyed] = "DELETED",
                   !.toBeDestroyed = NoThread]
    ELSE k

\* Lines 191-205.
Resume(k, intOff) ==
    IF ~intOff THEN [k EXCEPT !.halted = TRUE] ELSE CheckToBeDestroyed(k)

(***************************************************************************)
(* Scheduler::Aging.  Each loop visits the threads that were in the list   *)
(* when the loop started, in list order.                                   *)
(***************************************************************************)
\* Lines 251, 268.
Overdue(k, t) == k.totalTicks - k.waitTime[t] > AgingThreshold

\* Lines 254, 271.
NewPriority_NoCap(p) == p + AgingStep
NewPriority(p) == IF p + AgingStep < MaxPriority THEN p + AgingStep ELSE MaxPriority

\* Lines 253-256.
AgeInPlace_KeepWait(k, t) == [k EXCEPT !.priority[t] = NewPriority(@)]
AgeInPlace(k, t) ==
    [k EXCEPT !.priority[t] = NewPriority(@), !.waitTime[t] = k.totalTicks]

RECURSIVE AgeL1(_, _)
AgeL1(k, q) ==
    IF q = <<>> THEN k
    ELSE AgeL1(IF Overdue(k, Head(q)) THEN AgeInPlace(k, Head(q)) ELSE k, Tail(q))

\* Line 269.
RemoveFromL2_Not(k, t) == k
RemoveFromL2(k, t) == [k EXCEPT !.L2Q = RemoveItem(@, t)]

\* Line 278.
Readmit_ToL2(k, t, intOff) ==
    IF ~intOff THEN [k EXCEPT !.halted = TRUE]
    ELSE [k EXCEPT !.L2Q = InsertL2(k, t)]
Readmit(k, t, intOff) == ReadyToRun(k, t, intOff)

\* Lines 266-281.
RECURSIVE AgeL2(_, _, _)
AgeL2(k, q, intOff) ==
    IF q = <<>> \/ k.halted THEN k
    ELSE LET t == Head(q)
         IN  AgeL2(IF Overdue(k, t)
                   THEN Readmit(AgeInPlace(RemoveFromL2(k, t), t), t, intOff)
                   ELSE k,
                   Tail(q), intOff)

Aging(k, intOff) == AgeL2(AgeL1(k, k.L1Q), k.L2Q, intOff)

(***************************************************************************)
(* The callers of the scheduler (thread.cc, alarm.cc, interrupt handlers): *)
(*   Fork, wake-up     ReadyToRun(t)                                       *)
(*   Thread::Yield     FindNextToRun; ReadyToRun(current); Run(next, FALSE)*)
(*   Thread::Sleep     status = BLOCKED; FindNextToRun until a thread is   *)
(*                     found (idling meanwhile); Run(next, finishing)      *)
(*   the timer         Aging                                               *)
(* Every caller turns interrupts off before it calls the scheduler.        *)
(***************************************************************************)
\* Interrupts are off.
IntOff == intLevel = "IntOff"

NoCall ==
    [op |-> "none", t |-> NoThread, preempt |-> FALSE, level |-> 0,
     pre |-> <<>>, intOff |-> TRUE]

Call(op, t, k, intOff) ==
    [op |-> op, t |-> t, preempt |-> k.preempt, level |-> 0,
     pre |-> <<>>, intOff |-> intOff]

After(k, to) == IF k.halted THEN "halted" ELSE to

\* The main thread (0) is running, the others are not forked yet.  The
\* priorities are given before.
InitSched ==
    /\ status = [t \in Threads |-> IF t = 0 THEN "RUNNING" ELSE "JUST_CREATED"]
    /\ \A t \in Threads : priority[t] \in 0 .. MaxPriority
    /\ burstTime = [t \in Threads |-> 0]
    /\ burstStart = [t \in Threads |-> 0]
    /\ waitTime = [t \in Threads |-> 0]
    /\ L1Q = <<>>
    /\ L2Q = <<>>
    /\ L3Q = <<>>
    /\ currentThread = 0
    /\ toBeDestroyed = NoThread
    /\ totalTicks = 0
    /\ pc = "run"
    /\ nextThread = NoThread
    /\ finishing = FALSE
    /\ intLevel = "IntOff"
    /\ nCalls = 0
    /\ sl = NoCall

\* Thread::Fork of a new thread.
Fork(t) ==
    /\ pc = "run"
    /\ status[t] = "JUST_CREATED"
    /\ LET k == ReadyToRun(K, t, IntOff)
       IN  /\ SetK(k)
           /\ pc' = After(k, pc)
           /\ sl' = Call("ReadyToRun", t, k, IntOff)
    /\ UNCHANGED <<nextThread, finishing, intLevel, nCalls, fhVars>>

\* Thread t has finished: it sleeps for good or waits to be destroyed.
Finished(t) == (t = currentThread /\ finishing) \/ t = toBeDestroyed

\* A blocked thread is made ready again (Semaphore::V, an interrupt handler).
\* A finished thread waits for nothing.
Wake(t) ==
    /\ pc \in {"run", "idle"}
    /\ status[t] = "BLOCKED"
    /\ ~Finished(t)
    /\ LET k == ReadyToRun(K, t, IntOff)
       IN  /\ SetK(k)
           /\ pc' = After(k, pc)
           /\ sl' = Call("ReadyToRun", t, k, IntOff)
    /\ UNCHANGED <<nextThread, finishing, intLevel, nCalls, fhVars>>

FoundAt(r, found, none) ==
    /\ SetK(r.k)
    /\ nextThread' = r.ret
    /\ pc' = After(r.k, IF r.ret = NoThread THEN none ELSE found)
    /\ sl' = [Call("FindNextToRun", r.ret, r.k, IntOff)
                EXCEPT !.level = r.level, !.pre = <<L1Q, L2Q, L3Q>>]

\* Thread::Yield, first step.
YieldFind ==
    /\ pc = "run"
    /\ nCalls < MaxCalls
    /\ nCalls' = nCalls + 1
    /\ FoundAt(FindNextToRun(K, IntOff), "yield1", "run")
    /\ UNCHANGED <<finishing, intLevel, fhVars>>

\* Thread::Yield, second step.
YieldReady ==
    /\ pc = "yield1"
    /\ LET k == ReadyToRun(K, currentThread, IntOff)
       IN  /\ SetK(k)
           /\ pc' = After(k, "yield2")
           /\ sl' = Call("ReadyToRun", currentThread, k, IntOff)
    /\ UNCHANGED <<nextThread, finishing, intLevel, nCalls, fhVars>>

\* Thread::Sleep(fin), up to its first FindNextToRun.
Sleep(fin) ==
    /\ pc = "run"
    /\ nCalls < MaxCalls
    /\ finishing' = fin
    /\ FoundAt(FindNextToRun([K EXCEPT !.status[currentThread] = "BLOCKED"], IntOff),
               "sleep1", "idle")
    /\ nCalls' = nCalls + 1
    /\ UNCHANGED <<intLevel, fhVars>>

\* Thread::Sleep, FindNextToRun again after idling.
IdleFind ==
    /\ pc = "idle"
    /\ FoundAt(FindNextToRun(K, IntOff), "sleep1", "idle")
    /\ UNCHANGED <<finishing, intLevel, nCalls, fhVars>>

\* Scheduler::Run up to SWITCH.
Dispatch ==
    /\ pc \in {"yield2", "sleep1"}
    /\ LET k == Run(K, nextThread, finishing, IntOff)
       IN  /\ SetK(k)
           /\ pc' = After(k, IF k.switched THEN "switched" ELSE "run")
           /\ sl' = [Call("Run", nextThread, k, IntOff)
                       EXCEPT !.level = IF k.switched THEN 1 ELSE 0,
                              !.pre = <<currentThread, finishing>>]
    /\ nextThread' = NoThread
    /\ finishing' = FALSE
    /\ UNCHANGED <<intLevel, nCalls, fhVars>>

\* The thread switched to carries on after its SWITCH.
Resumed ==
    /\ pc = "switched"
    /\ LET k == Resume(K, IntOff)
       IN  /\ SetK(k)
           /\ pc' = After(k, "run")
           /\ sl' = [Call("Resume", toBeDestroyed, k, IntOff)
                       EXCEPT !.pre = <<currentThread>>]
    /\ UNCHANGED <<nextThread, finishing, intLevel, nCalls, fhVars>>

\* The timer's handler calls Aging.
AgingCall ==
    /\ pc \in {"run", "idle"}
    /\ \E k \in {Aging(K, IntOff)} :
           /\ SetK(k)
           /\ pc' = After(k, pc)
           /\ sl' = IF k = K /\ IntOff THEN sl
                    ELSE Call("Aging", NoThread, k, IntOff)
    /\ UNCHANGED <<nextThread, finishing, intLevel, nCalls, fhVars>>

\* The clock advances by one tick or by AgingThreshold ticks.
Tick(d) ==
    /\ pc \in {"run", "idle"}
    /\ \/ d = 1 /\ totalTicks % AgingThreshold < MaxSmallTicks
       \/ d = AgingThreshold /\ totalTicks \div AgingThreshold < MaxBigTicks
    /\ totalTicks' = totalTicks + d
    /\ sl' = [NoCall EXCEPT !.op = "Tick"]
    /\ UNCHANGED <<status, priority, burstTime, burstStart, waitTime, L1Q, L2Q,
                   L3Q, currentThread, toBeDestroyed, pc, nextThread, finishing,
                   intLevel, nCalls, fhVars>>

\* The clock keeps running while a thread waits in L2 and no queued thread is
\* overdue for Aging yet.
ClockRuns ==
    /\ pc \in {"run", "idle"}
    /\ L2Q # <<>>
    /\ \A i \in 1 .. Len(L1Q) : ~Overdue(K, L1Q[i])
    /\ \A i \in 1 .. Len(L2Q) : ~Overdue(K, L2Q[i])
    /\ totalTicks' = totalTicks + AgingThreshold + 1
    /\ sl' = [NoCall EXCEPT !.op = "Tick"]
    /\ UNCHANGED <<status, priority, burstTime, burstStart, waitTime, L1Q, L2Q,
                   L3Q, currentThread, toBeDestroyed, pc, nextThread, finishing,
                   intLevel, nCalls, fhVars>>

(***************************************************************************)
(* Callers that break the scheduler's preconditions.                       *)
(***************************************************************************)
\* Interrupts are set to level l (Interrupt::SetLevel); the calls that follow
\* are made at that level.
SetLevel(l) ==
    /\ pc \in {"run", "idle"}
    /\ intLevel # l
    /\ intLevel' = l
    /\ sl' = [NoCall EXCEPT !.op = "SetLevel"]
    /\ UNCHANGED <<status, priority, burstTime, burstStart, waitTime, L1Q, L2Q,
                   L3Q, currentThread, toBeDestroyed, totalTicks, pc,
                   nextThread, finishing, nCalls, fhVars>>

\* The thread switched to does not run the code after SWITCH: a thread other
\* than the main thread may run its entry code instead, without a call of
\* CheckToBeDestroyed.
SkipCleanup ==
    /\ pc = "switched"
    /\ currentThread # 0
    /\ pc' = "run"
    /\ sl' = [NoCall EXCEPT !.op = "SkipCleanup"]
    /\ UNCHANGED <<status, priority, burstTime, burstStart, waitTime, L1Q, L2Q,
                   L3Q, currentThread, toBeDestroyed, totalTicks, nextThread,
                   finishing, intLevel, nCalls, fhVars>>

\* The thread that sleeps for good is made ready all the same.
WakeFinishing ==
    /\ pc = "idle"
    /\ finishing
    /\ status[currentThread] = "BLOCKED"
    /\ LET k == ReadyToRun(K, currentThread, IntOff)
       IN  /\ SetK(k)
           /\ pc' = After(k, pc)
           /\ sl' = Call("ReadyToRun", currentThread, k, IntOff)
    /\ UNCHANGED <<nextThread, finishing, intLevel, nCalls, fhVars>>

NextSched ==
    \/ \E t \in Threads : Fork(t)
    \/ \E t \in Threads : Wake(t)
    \/ YieldFind
    \/ YieldReady
    \/ \E fin \in BOOLEAN : Sleep(fin)
    \/ IdleFind
    \/ Dispatch
    \/ Resumed
    \/ AgingCall
    \/ \E d \in {1, AgingThreshold} : Tick(d)

(***************************************************************************)
(* The specifications: the file header alone, the scheduler alone.         *)
(***************************************************************************)
SchedStart ==
    /\ priority = [t \in Threads |-> 45]
    /\ InitSched

FHStart ==
    /\ freeMap = {}
    /\ disk = [s \in Sectors |-> NoHdr]
    /\ hdr = FileHeader
    /\ fpc = "fresh"
    /\ last = NoLast

InitHdr == InitFH /\ SchedStart

SpecFH == InitHdr /\ [][NextFH]_vars

\* The scheduler with priorities of the three bands, the main thread's of
\* the lowest.
Init ==
    /\ priority \in {f \in [Threads -> Prios] : f[0] < L3Bound}
    /\ InitSched
    /\ FHStart

Spec == Init /\ [][NextSched]_vars

\* The scheduler with all threads of one priority, any of 0 .. MaxPriority.
InitBand ==
    /\ \E p \in 0 .. MaxPriority : priority = [t \in Threads |-> p]
    /\ InitSched
    /\ FHStart

NextBand ==
    \/ \E t \in Threads : Fork(t)
    \/ YieldFind
    \/ YieldReady
    \/ Dispatch
    \/ Resumed
    \/ Tick(1)

SpecBand == InitBand /\ [][NextBand]_vars

\* The scheduler with a clock that keeps running and a timer that keeps
\* calling Aging; a call in progress runs on.
NextAging ==
    \/ \E t \in Threads : Fork(t)
    \/ YieldFind
    \/ YieldReady
    \/ Dispatch
    \/ Resumed
    \/ AgingCall
    \/ Tick(1)
    \/ ClockRuns

Fairness ==
    /\ WF_vars(AgingCall)
    /\ WF_vars(ClockRuns)
    /\ WF_vars(YieldReady)
    /\ WF_vars(Dispatch)
    /\ WF_vars(Resumed)

\* Priorities two promotions below L1, and one below the cap.
AgingPrios == {85, 145}

InitAging ==
    /\ priority \in {f \in [Threads -> {45} \cup AgingPrios] :
                        \A t \in Threads : f[t] < L3Bound <=> t = 0}
    /\ InitSched
    /\ FHStart

SpecAging == InitAging /\ [][NextAging]_vars /\ Fairness

\* The scheduler with callers that break its preconditions: they turn
\* interrupts on, start a thread without cleaning up, wake a finished thread.
NextMisuse ==
    \/ NextSched
    \/ SetLevel("IntOn")
    \/ SkipCleanup
    \/ WakeFinishing

SpecMisuse == InitAging /\ [][NextMisuse]_vars

\* Priorities that one Aging moves within L2, from L2 to L1, and to the cap.
TimerPrios == {85, 95, 145}

InitTimer ==
    /\ priority \in {f \in [Threads -> {45} \cup TimerPrios] :
                        \A t \in Threads : f[t] < L3Bound <=> t = 0}
    /\ InitSched
    /\ FHStart

\* The scheduler with its well-behaved callers, started with these priorities.
SpecTimer == InitTimer /\ [][NextSched]_vars

(***************************************************************************)
(* Properties of the scheduler.  sl describes the scheduler call made by    *)
(* the last step: its operation, its thread and, for FindNextToRun, the     *)
(* three lists as they were before the call.                                *)
(***************************************************************************)
\* The lists thread t is in.
Queues(t) ==
    {b \in {1, 2, 3} : InList(IF b = 1 THEN L1Q ELSE IF b = 2 THEN L2Q ELSE L3Q, t)}

Queued(t) == Queues(t) # {}

\* C6: FindNextToRun removes and returns the head of L1 when L1 is not
\* empty, else the head of L2 when L2 is not empty, else the head of L3 when
\* L3 is not empty, else returns no thread; it leaves the other lists alone,
\* so no thread of a lower list is returned while a higher list has a thread.
C6_StrictPriority ==
    sl.op = "FindNextToRun" =>
        LET pre1 == sl.pre[1]
            pre2 == sl.pre[2]
            pre3 == sl.pre[3]
        IN  IF pre1 # <<>>
            THEN sl.t = Head(pre1) /\ <<L1Q, L2Q, L3Q>> = <<Tail(pre1), pre2, pre3>>
            ELSE IF pre2 # <<>>
            THEN sl.t = Head(pre2) /\ <<L1Q, L2Q, L3Q>> = <<pre1, Tail(pre2), pre3>>
            ELSE IF pre3 # <<>>
            THEN sl.t = Head(pre3) /\ <<L1Q, L2Q, L3Q>> = <<pre1, pre2, Tail(pre3)>>
            ELSE sl.t = NoThread /\ <<L1Q, L2Q, L3Q>> = <<pre1, pre2, pre3>>

\* FindNextToRun was called with a thread in each of the three lists.
C6_Witness ==
    /\ sl.op = "FindNextToRun"
    /\ sl.pre[1] # <<>> /\ sl.pre[2] # <<>> /\ sl.pre[3] # <<>>
    /\ sl.t = Head(sl.pre[1])

\* C7: after ReadyToRun(t), for every priority p of t in 0 .. 149, t is in
\* exactly one list, L3 if p < 50, L2 if 50 <= p < 100, L1 if p >= 100,
\* its status is READY and its wait time is the current tick.
C7_BandPlacement ==
    sl.op = "ReadyToRun" =>
        LET t == sl.t
            p == priority[t]
        IN  /\ p \in 0 .. 149
            /\ p < 50 => Queues(t) = {3}
            /\ 50 <= p /\ p < 100 => Queues(t) = {2}
            /\ p >= 100 => Queues(t) = {1}
            /\ status[t] = "READY"
            /\ waitTime[t] = totalTicks

\* ReadyToRun has put a thread of priority 99 in L2, after the clock moved.
C7_Witness ==
    /\ sl.op = "ReadyToRun"
    /\ priority[sl.t] = 99
    /\ Queues(sl.t) = {2}
    /\ totalTicks > 0

\* ReadyToRun has admitted thread sl.t to L1 while another thread, not the
\* main thread and of the L1 band itself, is running.
C8_Case ==
    /\ sl.op = "ReadyToRun"
    /\ priority[sl.t] >= 100
    /\ sl.t # currentThread
    /\ currentThread # 0
    /\ priority[currentThread] >= 100

\* Twice the running thread's estimate 0.5 * burst + 0.5 * (now - start).
C8_TwiceEstimate ==
    burstTime[currentThread] + (totalTicks - burstStart[currentThread])

\* C8 as stated: in that case ReadyToRun requests a preemption if the
\* admitted thread's burst is smaller than the running thread's estimate
\* 0.5 * burst + 0.5 * (now - start), and requests none if it is larger.
C8_PreemptByEstimate ==
    C8_Case =>
        /\ 2 * burstTime[sl.t] < C8_TwiceEstimate => sl.preempt
        /\ 2 * burstTime[sl.t] > C8_TwiceEstimate => ~sl.preempt

\* C8, amended: in that case ReadyToRun requests a preemption exactly if the
\* admitted thread's burst is smaller than the running thread's estimate
\* rounded down to a whole number of ticks.
C8_PreemptByTruncatedEstimate ==
    C8_Case => (sl.preempt <=> burstTime[sl.t] < C8_TwiceEstimate \div 2)

\* The estimate is no whole number, the admitted thread's burst is below it
\* and no preemption is requested.
C8_Witness ==
    /\ C8_Case
    /\ C8_TwiceEstimate % 2 = 1
    /\ 2 * burstTime[sl.t] < C8_TwiceEstimate
    /\ ~sl.preempt

\* A step over which every thread that stays in a list keeps or raises its
\* priority, and never above 149.
C9_Monotone ==
    \A t \in Threads :
        Queued(t) /\ Queued(t)' =>
            priority'[t] >= priority[t] /\ priority'[t] <= 149

\* A step at which a thread leaves L2 puts it in L1, unless FindNextToRun
\* took it out to run it.
C9_LeavesL2ForL1 ==
    \A t \in Threads :
        2 \in Queues(t) /\ 2 \notin Queues(t)' =>
            \/ Queues(t)' = {1}
            \/ sl'.op = "FindNextToRun" /\ sl'.t = t

\* C9: with Aging called again and again and the clock advancing, the
\* priority of a thread that stays queued never decreases and never exceeds
\* 149, and a thread in L2 that keeps waiting is eventually in L1.
C9_AgingPromotes ==
    /\ [][C9_Monotone /\ C9_LeavesL2ForL1]_vars
    /\ \A t \in Threads :
           (2 \in Queues(t)) ~> (1 \in Queues(t) \/ ~Queued(t))

\* Aging has moved a thread from L2 to L1 and raised another to the cap.
C9_Witness ==
    /\ sl.op = "Aging"
    /\ \E t \in Threads : priority[t] = 105 /\ Queues(t) = {1}
    /\ \E t \in Threads : priority[t] = 149 /\ Queued(t)

\* C10: at most one thread has status RUNNING, and it is the current thread.
C10_OneRunning ==
    \A t \in Threads : status[t] = "RUNNING" => t = currentThread

\* A thread yielded to another: the one is READY and queued again, the other
\* is RUNNING.
C10_Witness ==
    /\ sl.op = "Run"
    /\ sl.level = 1
    /\ status[currentThread] = "RUNNING"
    /\ \E t \in Threads : t # currentThread /\ status[t] = "READY" /\ Queued(t)
    /\ sl.pre[1] # currentThread /\ status[sl.pre[1]] = "READY"

\* Run is about to be called: only Dispatch can take the next step.
InRun == pc \in {"yield2", "sleep1"}

\* C11: a thread is destroyed only at the cleanup after a switch, when it is
\* the thread waiting to be destroyed and not the current thread; a thread
\* waiting to be destroyed is never replaced by another; and Run with
\* finishing set while a thread still waits to be destroyed halts and leaves
\* that thread waiting.
C11_Step ==
    /\ \A t \in Threads :
           status[t] # "DELETED" /\ status'[t] = "DELETED" =>
               /\ pc = "switched"
               /\ t = toBeDestroyed
               /\ t # currentThread /\ t # currentThread'
    /\ toBeDestroyed # NoThread => toBeDestroyed' \in {toBeDestroyed, NoThread}
    /\ (/\ InRun /\ IntOff /\ finishing
         /\ nextThread # currentThread
         /\ toBeDestroyed # NoThread) =>
            /\ pc' = "halted"
            /\ UNCHANGED <<toBeDestroyed, currentThread, status>>

C11_DeferredDestruction == [][C11_Step]_vars

\* Run halted: a thread finished while another still waited to be destroyed.
C11_Witness ==
    /\ pc = "halted"
    /\ sl.op = "Run"
    /\ sl.intOff
    /\ sl.pre[2]
    /\ toBeDestroyed # NoThread
    /\ toBeDestroyed # currentThread

\* No thread is twice in list q.
NoDuplicates(q) == \A i, j \in 1 .. Len(q) : q[i] = q[j] => i = j

\* C12: every thread is in at most one of L1, L2, L3 and at most once, and
\* every thread in a list has status READY.
C12_QueuesDisjoint ==
    /\ NoDuplicates(L1Q) /\ NoDuplicates(L2Q) /\ NoDuplicates(L3Q)
    /\ \A t \in Threads :
           /\ Cardinality(Queues(t)) <= 1
           /\ Queued(t) => status[t] = "READY"

\* Aging has re-admitted a thread of L2 while threads wait in two lists.
C12_Witness ==
    /\ sl.op = "Aging"
    /\ \E t, u \in Threads :
           /\ Queues(t) = {1} /\ priority[t] = 105
           /\ Queued(u) /\ Queues(u) # {1}

\* C14: when ReadyToRun admits a thread to L2 it requests a preemption
\* exactly if the thread's priority is greater than the running thread's and
\* the running thread is not thread 0, so never while an L1 thread runs; when
\* it admits a thread to L3 it requests none.
C14_L2Preemption ==
    sl.op = "ReadyToRun" =>
        LET p == priority[sl.t]
            running == priority[currentThread]
        IN  /\ 50 <= p /\ p < 100 =>
                  /\ sl.preempt <=> (p > running /\ currentThread # 0)
                  /\ running >= 100 => ~sl.preempt
            /\ p < 50 => ~sl.preempt

\* A thread admitted to L2 preempts a running thread of lower priority.
C14_Witness ==
    /\ sl.op = "ReadyToRun"
    /\ priority[sl.t] \in 50 .. 99
    /\ currentThread # 0
    /\ priority[sl.t] > priority[currentThread]
    /\ sl.preempt

\* C15: when ReadyToRun admits a thread to L1 while another thread, not
\* thread 0 and of the L2 band, is running, it requests a preemption whatever
\* the burst estimates are; when thread 0 or the admitted thread itself is
\* running it requests none.
C15_L1OverL2 ==
    sl.op = "ReadyToRun" /\ priority[sl.t] >= 100 =>
        LET running == priority[currentThread]
        IN  /\ (/\ sl.t # currentThread
                 /\ currentThread # 0
                 /\ 50 <= running /\ running < 100) => sl.preempt
            /\ (currentThread = 0 \/ sl.t = currentThread) => ~sl.preempt

\* A thread admitted to L1 preempts a running L2 thread though its burst is
\* not below the running thread's estimate.
C15_Witness ==
    /\ sl.op = "ReadyToRun"
    /\ priority[sl.t] >= 100
    /\ sl.t # currentThread /\ currentThread # 0
    /\ priority[currentThread] \in 50 .. 99
    /\ 2 * burstTime[sl.t] >= C8_TwiceEstimate
    /\ sl.preempt

\* C16: a step of Run(next, finishing) with next not the current thread
\* makes next the current thread with status RUNNING, sets the outgoing
\* thread's burst to the average, rounded down, of its burst and the ticks
\* since its burst start, sets next's burst start to the current tick, and
\* changes no other thread's burst or burst start.
C16_Step ==
    InRun /\ nextThread # currentThread =>
        LET old == currentThread
            next == nextThread
        IN  /\ currentThread' = next
            /\ status'[next] = "RUNNING"
            /\ burstTime'[old] =
                   (burstTime[old] + (totalTicks - burstStart[old])) \div 2
            /\ burstStart'[next] = totalTicks
            /\ \A t \in Threads \ {old} : burstTime'[t] = burstTime[t]
            /\ \A t \in Threads \ {next} : burstStart'[t] = burstStart[t]

C16_RunUpdatesBurst == [][C16_Step]_vars

\* Run has switched from a thread whose new burst was rounded down.
C16_Witness ==
    /\ sl.op = "Run"
    /\ sl.level = 1
    /\ sl.pre[1] # currentThread
    /\ status[currentThread] = "RUNNING"
    /\ burstStart[currentThread] = totalTicks
    /\ totalTicks = 1501
    /\ burstTime[sl.pre[1]] = 750

\* C17: a step of Run(next, finishing) with next the current thread changes
\* neither the current thread, nor any status, burst or burst start, nor the
\* lists, nor the thread to be destroyed, and switches to no thread.
C17_Step ==
    InRun /\ IntOff /\ nextThread = currentThread =>
        /\ UNCHANGED <<currentThread, status, burstTime, burstStart,
                       L1Q, L2Q, L3Q, toBeDestroyed>>
        /\ pc' = "run"

C17_RunSameThread == [][C17_Step]_vars

\* Run was called for the current thread, finishing.
C17_Witness ==
    /\ sl.op = "Run"
    /\ sl.t = currentThread
    /\ sl.pre = <<currentThread, TRUE>>
    /\ sl.level = 0
    /\ pc = "run"

\* The operations of the scheduler.
SchedulerOps == {"ReadyToRun", "FindNextToRun", "Run", "Aging"}

\* C13: a step that calls ReadyToRun, FindNextToRun, Run or Aging with
\* interrupts on halts, and changes no list, no field of a thread and not
\* the current thread (Sleep itself has blocked the current thread before
\* its FindNextToRun).
C13_Step ==
    intLevel = "IntOn" /\ sl'.op \in SchedulerOps =>
        /\ pc' = "halted"
        /\ UNCHANGED <<priority, burstTime, burstStart, waitTime,
                       L1Q, L2Q, L3Q, currentThread, toBeDestroyed>>
        /\ \A t \in Threads :
               status'[t] = status[t]
               \/ (sl'.op = "FindNextToRun" /\ t = currentThread)

C13_HaltsWithInterruptsOn == [][C13_Step]_vars

\* The threads Aging finds overdue in list q: queued there with a wait of
\* more than 1500 ticks.
AgedIn(q) == {t \in Threads : InList(q, t) /\ totalTicks - waitTime[t] > 1500}

\* The list q without the threads of S.
Without(q, S) == SelectSeq(q, LAMBDA x : x \notin S)

\* The list q holds higher priorities first (priorities as after the step).
ByPriority(q) ==
    \A i, j \in 1 .. Len(q) : i < j => priority'[q[i]] >= priority'[q[j]]

Min(a, b) == IF a < b THEN a ELSE b

\* C19: one Aging call at tick T changes exactly the threads in L1 or L2 that
\* have waited more than 1500 ticks: each gets priority min(priority + 10, 149)
\* and a wait that starts at T; the aged threads of L2 are taken out and put
\* back by ReadyToRun, in the list of their new priority (L2 stays ordered by
\* priority); the aged threads of L1 are not moved; every other thread, and
\* every thread of L3, keeps its priority, its wait and its place: the lists
\* differ from before only by the aged threads of L2.
C19_Step ==
    AgingCall /\ IntOff =>
        LET aged1 == AgedIn(L1Q)
            aged2 == AgedIn(L2Q)
        IN  /\ \A t \in aged1 \cup aged2 :
                   /\ priority'[t] = Min(priority[t] + 10, 149)
                   /\ waitTime'[t] = totalTicks
            /\ \A t \in Threads \ (aged1 \cup aged2) :
                   /\ priority'[t] = priority[t]
                   /\ waitTime'[t] = waitTime[t]
            /\ \A t \in aged2 :
                   Queues(t)' = {IF priority'[t] >= 100 THEN 1 ELSE 2}
            /\ Without(L1Q', aged2) = L1Q
            /\ Without(L2Q', aged2) = Without(L2Q, aged2)
            /\ ByPriority(L2Q')
            /\ L3Q' = L3Q
            /\ UNCHANGED <<status, burstTime, burstStart, currentThread,
                           toBeDestroyed, totalTicks, pc>>

C19_AgingFrame == [][C19_Step]_vars

\* Aging has just re-admitted a thread to L2 with its new priority, and has
\* left alone a queued thread that had waited 1500 ticks, not more.
C19_Witness ==
    /\ sl.op = "Aging"
    /\ \E t \in Threads :
           /\ priority[t] = 95 /\ Queues(t) = {2} /\ waitTime[t] = totalTicks
    /\ \E u \in Threads :
           /\ Queues(u) \in {{1}, {2}}
           /\ totalTicks - waitTime[u] = 1500
           /\ priority[u] \in TimerPrios

\* C20: the priority of every queued thread matches its list: 100 or more in
\* L1, from 50 to 99 in L2, below 50 in L3; in particular Aging leaves no
\* thread of priority 100 or more in L2.
C20_PriorityMatchesQueue ==
    /\ \A i \in 1 .. Len(L1Q) : priority[L1Q[i]] >= 100
    /\ \A i \in 1 .. Len(L2Q) : priority[L2Q[i]] >= 50 /\ priority[L2Q[i]] < 100
    /\ \A i \in 1 .. Len(L3Q) : priority[L3Q[i]] < 50

\* Aging has just promoted a thread across the band boundary into L1 while
\* another thread stays in L2.
C20_Witness ==
    /\ sl.op = "Aging"
    /\ \E t \in Threads : priority[t] = 105 /\ Queues(t) = {1}
    /\ L2Q # <<>>

====
